---- MODULE Spec2Model ----
(***************************************************************************)
(* A model of the sketchy library: the double-hash index generator         *)
(* (hash.rs), the Bloom filter (bloomfilter.rs), the Count-Min sketch      *)
(* (countmin.rs) and the Top-K structure (topk.rs).                        *)
(*                                                                         *)
(* u64 values are modelled in a word of WordBits bits: every u64 operation *)
(* of the source is taken modulo Word = 2^WordBits where the source wraps, *)
(* and is a panic or a wrap (the two outcomes a build can produce) where   *)
(* the source uses the checked operators +, - on u64.                      *)
(* f64 probabilities are modelled as integers in units of 1e-7, which      *)
(* represents every literal of the PROBS table exactly.                    *)
(***************************************************************************)
EXTENDS Integers, Sequences, FiniteSets, TLC

VARIABLES
    hash,      \* DefaultHasher: element -> [h1, h2], fixed for one run
    gen,       \* hash.rs Index iterators under test: slot -> generator
    bf,        \* Bloom filters: slot -> [k, len, bits]
    cms,       \* Count-Min sketches: slot -> [depth, width, counters]
    topk,      \* the TopK structure [k, minNum, minDen, n, cms, elements]
    truth,     \* ghost: what was really inserted (per structure)
    last,      \* the last operation performed, its arguments and its result
    panicked   \* TRUE once an operation has panicked (the thread unwinds)

vars == <<hash, gen, bf, cms, topk, truth, last, panicked>>

----------------------------------------------------------------------------
(* Bounds of the model *)

WordBits == 3      \* u64 is modelled with this many bits
MaxDraws == 4      \* draws taken from one Index iterator
MaxMax == 3        \* largest `max` handed to indexes() in the generator runs
MaxDepth == 2      \* largest sketch depth
MaxWidth == 3      \* largest sketch width
MaxCount == 2      \* largest count handed to insert_n
MaxTotal == 3      \* cap on the number of elements fed to one run
MaxN == 1          \* largest population n handed to BloomFilter::new
MaxTopK == 2       \* largest k handed to TopK::new
MaxInserts == 4    \* cap on the number of TopK::insert calls in one run

RECURSIVE Pow2(_)
Pow2(n) == IF n = 0 THEN 1 ELSE 2 * Pow2(n - 1)

Word == Pow2(WordBits)

Min2(x, y) == IF x < y THEN x ELSE y

Range(s) == {s[j] : j \in 1..Len(s)}

NoOp == [op |-> "none"]

----------------------------------------------------------------------------
(* hash.rs *)

\* u64::wrapping_mul and u64::wrapping_add
WrappingMul(x, y) == (x * y) % Word
WrappingAdd(x, y) == (x + y) % Word

\* The values the two SipHash passes can take in a run: zero, a small value
\* and the largest word (so that h1 + i*h2 wraps).
HashVals == {0, 1, Word - 1}
AllVals == 0..(Word - 1)

\* indexes(): the Index built for element e and bound max
NewIndexBad(e, max) == [h1 |-> hash[e].h1, h2 |-> hash[e].h2, max |-> max, i |-> 1]
NewIndex(e, max) == [h1 |-> hash[e].h1, h2 |-> hash[e].h2, max |-> max, i |-> 0]

\* Index::next: the iterator after the call, and the value it returns
IndexAdvance(g) == [g EXCEPT !.i = g.i + 1]
IndexValue(g) == WrappingAdd(g.h1, WrappingMul(g.i, g.h2)) % g.max

\* indexes(e, max).take(n).collect(): the first n draws, by iterating next()
RECURSIVE TakeFrom(_, _)
TakeFrom(g, n) ==
    IF n = 0 THEN <<>>
    ELSE LET g1 == IndexAdvance(g) IN <<IndexValue(g1)>> \o TakeFrom(g1, n - 1)

Take(e, max, n) == TakeFrom(NewIndex(e, max), n)

NoGen == [elem |-> "none", out |-> <<>>]

\* let it = indexes(&e, max)
Indexes(s, e, max) ==
    /\ ~panicked
    /\ gen' = [gen EXCEPT ![s] = [elem |-> e, it |-> NewIndex(e, max), out |-> <<>>]]
    /\ last' = [op |-> "indexes"]
    /\ UNCHANGED <<hash, bf, cms, topk, truth, panicked>>

\* it.next()
IndexNext(s) ==
    /\ ~panicked
    /\ gen[s].elem # "none"
    /\ Len(gen[s].out) < MaxDraws
    /\ LET g1 == IndexAdvance(gen[s].it) IN
         gen' = [gen EXCEPT ![s].it = g1, ![s].out = Append(@, IndexValue(g1))]
    /\ last' = [op |-> "next"]
    /\ UNCHANGED <<hash, bf, cms, topk, truth, panicked>>

\* The generator runs hash one element, whose two hashes range over the
\* whole word.
HashElems == {"a"}

InitHash ==
    /\ hash \in [HashElems -> [h1 : AllVals, h2 : AllVals]]
    /\ gen = [s \in 1..2 |-> NoGen]
    /\ bf = <<>>
    /\ cms = <<>>
    /\ topk = <<>>
    /\ truth = <<>>
    /\ last = NoOp
    /\ panicked = FALSE

NextHash ==
    \/ \E s \in 1..2, e \in DOMAIN hash, max \in 1..MaxMax : Indexes(s, e, max)
    \/ \E s \in 1..2 : IndexNext(s)

SpecHash == InitHash /\ [][NextHash]_vars

----------------------------------------------------------------------------
(* bloomfilter.rs *)

MAX_BUCKETS == 15
MIN_BUCKETS == 2
MIN_K == 1
MAX_K == 8

\* OPT_K[buckets], 0-based in the source
OPT_K == <<1, 1, 1, 2, 3, 3, 4, 5, 5, 6, 7, 8, 8, 9, 10, 10, 11, 12, 12, 13, 14>>

\* PROBS[buckets][k], 0-based in the source, in units of 1e-7
PROBS ==
    << <<10000000>>,
       <<10000000, 10000000>>,
       <<10000000, 3930000, 4000000>>,
       <<10000000, 2830000, 2370000, 2530000>>,
       <<10000000, 2210000, 1550000, 1470000, 1600000>>,
       <<10000000, 1810000, 1090000, 920000, 920000, 1010000>>,
       <<10000000, 1540000, 804000, 609000, 561000, 578000, 638000>>,
       <<10000000, 1330000, 618000, 423000, 359000, 347000, 364000>>,
       <<10000000, 1180000, 489000, 306000, 240000, 217000, 216000, 229000>>,
       <<10000000, 1050000, 397000, 228000, 166000, 141000, 133000, 135000, 145000>>,
       <<10000000, 952000, 329000, 174000, 118000, 94300, 84400, 81900, 84600>>,
       <<10000000, 869000, 276000, 136000, 86400, 65000, 55200, 51300, 50900>>,
       <<10000000, 800000, 236000, 108000, 64600, 45900, 37100, 32900, 31400>>,
       <<10000000, 740000, 203000, 87500, 49200, 33200, 25500, 21700, 19900, 19400>>,
       <<10000000, 689000, 177000, 71800, 38100, 24400, 17900, 14600, 12900, 12100, 12000>>,
       <<10000000, 645000, 156000, 59600, 30000, 18300, 12800, 10000, 8520, 7750, 7440>>,
       <<10000000, 606000, 138000, 50000, 23900, 13900, 9350, 7020, 5740, 5050, 4700, 4590>>,
       <<10000000, 571000, 123000, 42300, 19300, 10700, 6920, 4990, 3940, 3350, 3020, 2870, 2840>>,
       <<10000000, 540000, 111000, 36200, 15800, 8390, 5190, 3600, 2750, 2260, 1980, 1830, 1760>>,
       <<10000000, 513000, 99800, 31200, 13000, 6630, 3940, 2640, 1940, 1550, 1320, 1180, 1110, 1090>>,
       <<10000000, 488000, 90600, 27000, 10800, 5300, 3030, 1960, 1400, 1080, 889, 777, 712, 679, 671>> >>

OptK(buckets) == OPT_K[buckets + 1]
Probs(buckets, k) == PROBS[buckets + 1][k + 1]

\* f64: NaN compares false with everything
NaN == -2000000000
FGe(x, y) == x # NaN /\ y # NaN /\ x >= y
FGt(x, y) == x # NaN /\ y # NaN /\ x > y
FLt(x, y) == x # NaN /\ y # NaN /\ x < y
FLe(x, y) == x # NaN /\ y # NaN /\ x <= y

\* while PROBS[buckets][k] > max_false_pos_prob { buckets += 1; k = OPT_K[buckets]; }
RECURSIVE FindBuckets(_, _, _)
FindBuckets(buckets, k, p) ==
    IF FGt(Probs(buckets, k), p)
    THEN FindBuckets(buckets + 1, OptK(buckets + 1), p)
    ELSE <<buckets, k>>

\* while PROBS[buckets][k-1] <= max_false_pos_prob { k -= 1; }
RECURSIVE RelaxK(_, _, _)
RelaxK(buckets, k, p) ==
    IF FLe(Probs(buckets, k - 1), p) THEN RelaxK(buckets, k - 1, p) ELSE <<buckets, k>>

\* best_buckets_and_k: the pair (buckets, k) as the caller destructures it
BestBucketsAndK(p) ==
    IF FGe(p, Probs(MIN_BUCKETS, MIN_K)) THEN <<2, OptK(2)>>
    ELSE IF FLt(p, Probs(MAX_BUCKETS, MAX_K)) THEN <<MAX_K, MAX_BUCKETS>>
    ELSE LET f == FindBuckets(2, OptK(2), p) IN RelaxK(f[1], f[2], p)

\* BloomFilter::new: k and a BitVec of n * buckets + 20 cleared bits; the
\* BitVec is modelled by its length and the set of its set positions
BloomFilterNew(n, p) ==
    LET bk == BestBucketsAndK(p) IN
    [k |-> bk[2], len |-> n * bk[1] + 20, bits |-> {}]

\* the positions insert and contains visit: indexes(&e, bits.len()).take(k)
BloomIndexes(f, e) == Range(Take(e, f.len, f.k))

\* BloomFilter::insert
BloomInsertFirstOnly(f, e) == [f EXCEPT !.bits = @ \cup Range(Take(e, f.len, 1))]
BloomInsert(f, e) == [f EXCEPT !.bits = @ \cup BloomIndexes(f, e)]

\* BloomFilter::contains
BloomContains(f, e) == \A i \in BloomIndexes(f, e) : i \in f.bits

\* BitVec::union as called by merge: the bits after it and the value returned
BitVecUnionAssign(x, y) == [bits |-> y, changed |-> (y # x)]
BitVecUnion(x, y) == [bits |-> x \cup y, changed |-> (x \cup y) # x]

Insert(s, e) ==
    /\ ~panicked
    /\ bf' = [bf EXCEPT ![s] = BloomInsert(bf[s], e)]
    /\ truth' = [truth EXCEPT ![s] = @ \cup {e}]
    /\ last' = [op |-> "insert"]
    /\ UNCHANGED <<hash, gen, cms, topk, panicked>>

Contains(s, e) ==
    /\ ~panicked
    /\ last' = [op |-> "contains", elem |-> e, ret |-> BloomContains(bf[s], e)]
    /\ UNCHANGED <<hash, gen, bf, cms, topk, truth, panicked>>

\* BloomFilter::merge: assert_eq!(self.k, other.k), then BitVec::union, which
\* panics on operands of different lengths
Merge(d, s) ==
    /\ ~panicked
    /\ IF bf[d].k # bf[s].k \/ bf[d].len # bf[s].len
       THEN /\ panicked' = TRUE
            /\ last' = [op |-> "merge", dst |-> d, src |-> s, pre |-> bf]
            /\ UNCHANGED <<bf, truth>>
       ELSE LET u == BitVecUnion(bf[d].bits, bf[s].bits) IN
            /\ bf' = [bf EXCEPT ![d].bits = u.bits]
            /\ truth' = [truth EXCEPT ![d] = @ \cup truth[s]]
            /\ last' = [op |-> "merge", dst |-> d, src |-> s, pre |-> bf,
                        ret |-> u.changed]
            /\ UNCHANGED panicked
    /\ UNCHANGED <<hash, gen, cms, topk>>

BloomElems == {"a", "b"}

\* the requested probabilities of the filter runs: 0.5 (above the table's
\* range, k = 1) and 0.1 (inside it, k = 3)
BloomProbs == {5000000, 1000000}

InitBloom ==
    /\ hash \in [BloomElems -> [h1 : HashVals, h2 : HashVals]]
    /\ \E n1 \in 0..MaxN, n2 \in 0..MaxN, p1 \in BloomProbs, p2 \in BloomProbs :
          bf = <<BloomFilterNew(n1, p1), BloomFilterNew(n2, p2)>>
    /\ truth = <<{}, {}>>
    /\ gen = <<>>
    /\ cms = <<>>
    /\ topk = <<>>
    /\ last = NoOp
    /\ panicked = FALSE

NextBloom ==
    \/ \E s \in 1..2, e \in DOMAIN hash : Insert(s, e)
    \/ \E s \in 1..2, e \in DOMAIN hash : Contains(s, e)
    \/ \E d \in 1..2, s \in 1..2 : d # s /\ Merge(d, s)

SpecBloom == InitBloom /\ [][NextBloom]_vars

\* C1: every element inserted into a filter, or into a filter merged into
\* it, is reported present by contains.
C1_NoFalseNegatives ==
    \A s \in 1..2 : \A e \in truth[s] : BloomContains(bf[s], e)

\* a merge has brought an element into a filter that never had it inserted
\* directly, and the filter still reports some other element absent
C1_Witness ==
    /\ last.op = "merge" /\ ~panicked /\ last.ret
    /\ \E e \in truth[last.dst] : ~BloomContains(last.pre[last.dst], e)
    /\ \E e \in DOMAIN hash : ~BloomContains(bf[last.dst], e)

\* every bit insert sets lies inside the BitVec (the part of C8 about the
\* filter's array)
BloomBitsInside == \A s \in DOMAIN bf : \A i \in bf[s].bits : 0 <= i /\ i < bf[s].len

\* C5: a merge of two filters with the same k and length leaves the
\* destination with the union of the two pre-merge bit sets, leaves the source
\* as it was, and returns true exactly when some bit of the destination went
\* from 0 to 1 (so false when the source's bits were a subset).
C5_MergeUnion ==
    (last.op = "merge" /\ ~panicked) =>
        LET pd == last.pre[last.dst]
            ps == last.pre[last.src] IN
        /\ bf[last.dst].bits = pd.bits \cup ps.bits
        /\ bf[last.dst].k = pd.k /\ bf[last.dst].len = pd.len
        /\ bf[last.src] = ps
        /\ last.ret = (\E i \in bf[last.dst].bits : i \notin pd.bits)
        /\ ps.bits \subseteq pd.bits => (last.ret = FALSE /\ bf = last.pre)

\* a merge that flipped a bit, into a destination that already had bits set
C5_Witness ==
    /\ last.op = "merge" /\ ~panicked /\ last.ret
    /\ last.pre[last.dst].bits # {}
    /\ ~(last.pre[last.dst].bits \subseteq last.pre[last.src].bits)

\* a merge that changed nothing although the source had bits set
C5_WitnessNoChange ==
    /\ last.op = "merge" /\ ~panicked /\ ~last.ret
    /\ last.pre[last.src].bits # {}

\* BloomFilter::new(n, max_false_pos_prob), recording the pair chosen
New(n, p) ==
    /\ ~panicked
    /\ bf' = <<BloomFilterNew(n, p)>>
    /\ last' = [op |-> "new", n |-> n, p |-> p, buckets |-> BestBucketsAndK(p)[1],
                k |-> BestBucketsAndK(p)[2]]
    /\ UNCHANGED <<hash, gen, cms, topk, truth, panicked>>

\* the requested probabilities of the parameter runs: every entry of the
\* table and its two neighbours at 1e-7, zero, a negative value, 2.0 and NaN
TableVals == UNION {Range(PROBS[r]) : r \in 1..Len(PROBS)}
ProbInputs ==
    UNION {{v - 1, v, v + 1} : v \in TableVals} \cup {0, -1, 20000000, NaN}

InitParams ==
    /\ hash = <<>>
    /\ bf = <<>>
    /\ truth = <<>>
    /\ gen = <<>>
    /\ cms = <<>>
    /\ topk = <<>>
    /\ last = NoOp
    /\ panicked = FALSE

NextParams == \E n \in 0..MaxN, p \in ProbInputs : New(n, p)

SpecParams == InitParams /\ [][NextParams]_vars

\* C7: whatever probability is requested, the constructor's pair has
\* bits-per-element in [2, 15] and k in [1, 8]; a request below the table's
\* range gets the table's last pair (15, 8), one above it the first (2, 1).
C7_ParamsInRange ==
    last.op = "new" =>
        /\ last.buckets \in MIN_BUCKETS..MAX_BUCKETS
        /\ last.k \in MIN_K..MAX_K
        /\ bf[1].k = last.k
        /\ bf[1].len = last.n * last.buckets + 20
        /\ FLt(last.p, Probs(MAX_BUCKETS, MAX_K)) =>
              (last.buckets = MAX_BUCKETS /\ last.k = MAX_K)
        /\ FGe(last.p, Probs(MIN_BUCKETS, MIN_K)) =>
              (last.buckets = MIN_BUCKETS /\ last.k = MIN_K)

\* the part of C7 the code keeps: 2 <= buckets <= 15 and k >= 1
C7_BucketsInRange ==
    last.op = "new" => (last.buckets \in MIN_BUCKETS..MAX_BUCKETS /\ last.k >= MIN_K)

\* C7 also fails inside the table's range: k = 9 is chosen for 0.00194
C7_KInRangeInsideTable ==
    (last.op = "new" /\ FGe(last.p, Probs(MAX_BUCKETS, MAX_K))) => last.k <= MAX_K

----------------------------------------------------------------------------
(* countmin.rs *)

\* CountMinSketch::new: vec![vec![0; width]; depth]
CmsNew(depth, width) ==
    [depth |-> depth, width |-> width,
     counters |-> [r \in 1..depth |-> [c \in 1..width |-> 0]]]

\* the (row, column) pairs an operation visits, 0-based as in the source:
\* indexes(&e, width).take(depth).enumerate()
CmsIndexes(s, e) == Take(e, s.width, s.depth)

\* self.counters[i][idx] is inside the matrix
CmsInside(s, i, idx) == i + 1 <= Len(s.counters) /\ idx + 1 <= Len(s.counters[i + 1])

\* insert_n's loop from row i on: each row's counter is incremented until a
\* row indexes outside the matrix, which panics and keeps the rows done so far
RECURSIVE InsertRows(_, _, _, _)
InsertRows(s, idx, n, i) ==
    IF i >= s.depth THEN [sk |-> s, panic |-> FALSE]
    ELSE IF ~CmsInside(s, i, idx[i + 1]) THEN [sk |-> s, panic |-> TRUE]
    ELSE InsertRows([s EXCEPT !.counters[i + 1][idx[i + 1] + 1] = @ + n], idx, n, i + 1)

\* CountMinSketch::insert_n
CmsInsertNFirstRow(s, e, n) ==
    [sk |-> [s EXCEPT !.counters[1][CmsIndexes(s, e)[1] + 1] = @ + n], panic |-> FALSE]
CmsInsertN(s, e, n) == InsertRows(s, CmsIndexes(s, e), n, 0)

\* CountMinSketch::insert
CmsInsert(s, e) == CmsInsertN(s, e, 1)

\* estimate reads every row inside the matrix, and there is a row to take
\* the minimum of (min().unwrap())
CmsReadable(s, e) ==
    /\ s.depth >= 1
    /\ \A i \in 0..(s.depth - 1) : CmsInside(s, i, CmsIndexes(s, e)[i + 1])

\* the counters of e, one per row
CmsRowValues(s, e) ==
    [i \in 1..s.depth |-> s.counters[i][CmsIndexes(s, e)[i] + 1]]

SeqMin(v) == CHOOSE x \in Range(v) : \A y \in Range(v) : x <= y

\* CountMinSketch::estimate
CmsEstimate(s, e) == SeqMin(CmsRowValues(s, e))

\* u64 subtraction: a build with overflow checks panics when y > x, a build
\* without them wraps
USub(x, y, checked) ==
    IF y <= x THEN [val |-> x - y, panic |-> FALSE]
    ELSE [val |-> (x - y + Word) % Word, panic |-> checked]

\* u64 addition, likewise
UAdd(x, y, checked) ==
    IF x + y < Word THEN [val |-> x + y, panic |-> FALSE]
    ELSE [val |-> (x + y) % Word, panic |-> checked]

\* the closure of estimate_mean on one row value v:
\* noise = (n - v) / (width - 1); v - noise
MeanRow(s, v, n, checked) ==
    LET d == USub(n, v, checked) IN
    IF d.panic \/ s.width = 1 THEN [val |-> 0, panic |-> TRUE]
    ELSE USub(v, d.val \div (s.width - 1), checked)

\* values.sort()
RECURSIVE SortInsert(_, _)
SortInsert(sorted, x) ==
    IF sorted = <<>> THEN <<x>>
    ELSE IF x <= Head(sorted) THEN <<x>> \o sorted
    ELSE <<Head(sorted)>> \o SortInsert(Tail(sorted), x)

RECURSIVE Sort(_)
Sort(v) == IF v = <<>> THEN <<>> ELSE SortInsert(Sort(Tail(v)), Head(v))

\* the median as estimate_mean takes it (0-based indexes in the source)
MedianOf(values, checked) ==
    LET len == Len(values) IN
    IF len % 2 = 0
    THEN LET sum == UAdd(values[len \div 2 + 1], values[len \div 2], checked) IN
         [val |-> sum.val \div 2, panic |-> sum.panic]
    ELSE [val |-> values[len \div 2 + 1], panic |-> FALSE]

\* CountMinSketch::estimate_mean on a readable sketch
MeanValues(rows, checked) ==
    IF \E i \in DOMAIN rows : rows[i].panic THEN [val |-> 0, panic |-> TRUE]
    ELSE MedianOf(Sort([i \in DOMAIN rows |-> rows[i].val]), checked)

CmsEstimateMean(s, e, n, checked) ==
    MeanValues([i \in 1..s.depth |-> MeanRow(s, s.counters[i][CmsIndexes(s, e)[i] + 1], n, checked)],
               checked)

\* CountMinSketch::merge: the counters are rebuilt from the zip of the rows
\* and, in each row, the zip of the columns; zip stops at the shorter operand
CmsMergeKeepLeft(a, b) == a
CmsMerge(a, b) ==
    [a EXCEPT !.counters =
        [r \in 1..Min2(Len(a.counters), Len(b.counters)) |->
            [c \in 1..Min2(Len(a.counters[r]), Len(b.counters[r])) |->
                a.counters[r][c] + b.counters[r][c]]]]

\* ghost: the number of elements fed to a sketch, merged ones included
RECURSIVE SumOver(_, _)
SumOver(f, S) ==
    IF S = {} THEN 0
    ELSE LET x == CHOOSE y \in S : TRUE IN f[x] + SumOver(f, S \ {x})

Total(s) == SumOver(truth[s], DOMAIN truth[s])
TotalAll == SumOver([s \in DOMAIN truth |-> Total(s)], DOMAIN truth)

\* cms.insert_n(e, n); insert(e) is the case n = 1
CInsertN(s, e, n) ==
    /\ ~panicked
    /\ TotalAll + n <= MaxTotal
    /\ \E r \in {CmsInsertN(cms[s], e, n)} :
         /\ cms' = [cms EXCEPT ![s] = r.sk]
         /\ panicked' = r.panic
    /\ truth' = [truth EXCEPT ![s][e] = @ + n]
    /\ last' = [op |-> "insert_n"]
    /\ UNCHANGED <<hash, gen, bf, topk>>

\* cms.estimate(&e)
CEstimate(s, e) ==
    /\ ~panicked
    /\ IF CmsReadable(cms[s], e)
       THEN /\ last' = [op |-> "estimate", ret |-> CmsEstimate(cms[s], e)]
            /\ UNCHANGED panicked
       ELSE /\ last' = [op |-> "estimate"]
            /\ panicked' = TRUE
    /\ UNCHANGED <<hash, gen, bf, cms, topk, truth>>

\* cms.estimate_mean(e, n), in a build with or without overflow checks
CEstimateMean(s, e, n, checked) ==
    /\ ~panicked
    /\ \E r \in {IF CmsReadable(cms[s], e) THEN CmsEstimateMean(cms[s], e, n, checked)
                  ELSE [val |-> 0, panic |-> TRUE]} :
         /\ last' = [op |-> "estimate_mean", slot |-> s, elem |-> e, n |-> n,
                     ret |-> r.val, panic |-> r.panic]
         /\ panicked' = r.panic
    /\ UNCHANGED <<hash, gen, bf, cms, topk, truth>>

\* d.merge(&s)
CMerge(d, s) ==
    /\ ~panicked
    /\ TotalAll + Total(s) <= MaxTotal
    /\ cms' = [cms EXCEPT ![d] = CmsMerge(cms[d], cms[s])]
    /\ truth' = [truth EXCEPT ![d] = [e \in DOMAIN truth[d] |-> truth[d][e] + truth[s][e]]]
    /\ last' = [op |-> "merge", dst |-> d, src |-> s, pre |-> cms]
    /\ UNCHANGED <<hash, gen, bf, topk, panicked>>

CmsElems == {"a", "b"}

InitCmsCommon(slots, elems) ==
    /\ hash \in [elems -> [h1 : HashVals, h2 : HashVals]]
    /\ truth = [s \in slots |-> [e \in elems |-> 0]]
    /\ gen = <<>>
    /\ bf = <<>>
    /\ topk = <<>>
    /\ last = NoOp
    /\ panicked = FALSE

\* two sketches built with the same depth and width
InitCms ==
    /\ InitCmsCommon(1..2, CmsElems)
    /\ \E depth \in 1..MaxDepth, width \in 1..MaxWidth :
          cms = <<CmsNew(depth, width), CmsNew(depth, width)>>

\* two sketches built with any depths and widths
InitCmsShapes ==
    /\ InitCmsCommon(1..2, {"a"})
    /\ \E d1 \in 1..MaxDepth, w1 \in 1..MaxWidth, d2 \in 1..MaxDepth, w2 \in 1..MaxWidth :
          cms = <<CmsNew(d1, w1), CmsNew(d2, w2)>>

\* one sketch, for the runs of estimate_mean
InitCmsMean ==
    /\ InitCmsCommon(1..1, CmsElems)
    /\ \E depth \in 1..MaxDepth, width \in 1..MaxWidth : cms = <<CmsNew(depth, width)>>

NextCms ==
    \/ \E s \in DOMAIN cms, e \in DOMAIN hash, n \in 0..MaxCount : CInsertN(s, e, n)
    \/ \E s \in DOMAIN cms, e \in DOMAIN hash : CEstimate(s, e)
    \/ \E d \in DOMAIN cms, s \in DOMAIN cms : d # s /\ CMerge(d, s)

NextCmsMean ==
    \/ \E s \in DOMAIN cms, e \in DOMAIN hash, n \in 0..MaxCount : CInsertN(s, e, n)
    \/ \E s \in DOMAIN cms, e \in DOMAIN hash, n \in 0..MaxTotal, checked \in BOOLEAN :
          CEstimateMean(s, e, n, checked)

SpecCms == InitCms /\ [][NextCms]_vars
SpecCmsShapes == InitCmsShapes /\ [][NextCms]_vars
SpecCmsMean == InitCmsMean /\ [][NextCmsMean]_vars

\* C2: for every sketch and element, estimate is at least the number of
\* times the element was added to the sketch, directly (insert, insert_n) or
\* through the sketches merged into it.
C2_OneSidedError ==
    \A s \in DOMAIN cms : \A e \in DOMAIN hash : CmsEstimate(cms[s], e) >= truth[s][e]

\* after a merge, a sketch of depth 2 and width 3 over-estimates an element
\* that came to it from the merged sketch (a collision in every row)
C2_Witness ==
    /\ last.op = "merge" /\ cms[last.dst].depth = 2 /\ cms[last.dst].width = 3
    /\ \E e \in DOMAIN hash :
          /\ truth[last.src][e] > 0
          /\ CmsEstimate(cms[last.dst], e) > truth[last.dst][e]

\* sketches of the same shape are never indexed outside their matrix (the
\* part of C8 about the sketch's array)
CmsNeverOutside ==
    /\ ~panicked
    /\ \A s \in DOMAIN cms : \A e \in DOMAIN hash : CmsReadable(cms[s], e)

\* C4: a merge of two sketches of the same depth and width leaves every
\* counter of the destination equal to the sum of the two pre-merge counters,
\* the source and the destination's depth and width as they were, and the
\* destination's estimate of every element at least its count in the source.
C4_MergeSum ==
    last.op = "merge" =>
        LET pd == last.pre[last.dst]
            ps == last.pre[last.src]
            a == cms[last.dst] IN
        /\ a.depth = pd.depth /\ a.width = pd.width
        /\ Len(a.counters) = a.depth
        /\ \A r \in 1..a.depth :
              /\ Len(a.counters[r]) = a.width
              /\ \A c \in 1..a.width :
                    a.counters[r][c] = pd.counters[r][c] + ps.counters[r][c]
        /\ cms[last.src] = ps
        /\ \A e \in DOMAIN hash : CmsEstimate(a, e) >= truth[last.src][e]

\* a merge of two sketches that both held counts
C4_Witness ==
    /\ last.op = "merge"
    /\ \E e \in DOMAIN hash : CmsEstimate(last.pre[last.dst], e) > 0
    /\ \E e \in DOMAIN hash : CmsEstimate(last.pre[last.src], e) > 0
    /\ cms[last.dst].depth = 2 /\ cms[last.dst].width = 3

\* the counter matrix has the sketch's recorded depth and width
CmsShapeOk(s) ==
    /\ Len(s.counters) = s.depth
    /\ \A r \in 1..Len(s.counters) : Len(s.counters[r]) = s.width

\* C9: a merge of sketches whose depth or width differ fails at the call, and
\* no sketch is ever left with a matrix that is not depth x width.
C9_MismatchedMergeFails ==
    /\ (/\ last.op = "merge"
        /\ \/ last.pre[last.dst].depth # last.pre[last.src].depth
           \/ last.pre[last.dst].width # last.pre[last.src].width) => panicked
    /\ \A s \in DOMAIN cms : CmsShapeOk(cms[s])

\* what the code does keep: merge never touches the recorded depth and width,
\* nor the source
C9_MergeKeepsFields ==
    last.op = "merge" =>
        /\ cms[last.dst].depth = last.pre[last.dst].depth
        /\ cms[last.dst].width = last.pre[last.dst].width
        /\ cms[last.src] = last.pre[last.src]

\* saturating subtraction, as C10 states it
SatSub(x, y) == IF y <= x THEN x - y ELSE 0

\* the value C10 states for estimate_mean(e, n)
SaturatingMean(s, e, n) ==
    LET v == CmsRowValues(s, e)
        sorted == Sort([r \in 1..s.depth |-> SatSub(v[r], (n - v[r]) \div (s.width - 1))])
        len == Len(sorted) IN
    IF len % 2 = 0 THEN (sorted[len \div 2] + sorted[len \div 2 + 1]) \div 2
    ELSE sorted[len \div 2 + 1]

\* C10: on a sketch of width >= 2, with total_n the true total of the counts
\* inserted, estimate_mean returns, without wrapping or panicking, the median
\* of v_r - floor((total_n - v_r)/(width - 1)) saturated at zero (for an even
\* depth, the floor of the mean of the two middle values).
C10_MeanSaturates ==
    (/\ last.op = "estimate_mean"
     /\ cms[last.slot].width >= 2
     /\ last.n = Total(last.slot)) =>
        /\ ~last.panic
        /\ last.ret = SaturatingMean(cms[last.slot], last.elem, last.n)

\* no row's noise term exceeds the row's counter
NoUnderflow(s, e, n) ==
    \A r \in 1..s.depth :
        LET v == CmsRowValues(s, e)[r] IN v <= n /\ (n - v) \div (s.width - 1) <= v

\* where no row underflows, the code does return the value C10 states
C10_MeanWithoutUnderflow ==
    (/\ last.op = "estimate_mean"
     /\ cms[last.slot].width >= 2
     /\ NoUnderflow(cms[last.slot], last.elem, last.n)) =>
        /\ ~last.panic
        /\ last.ret = SaturatingMean(cms[last.slot], last.elem, last.n)

----------------------------------------------------------------------------
(* topk.rs *)

\* TopK::new
TopKNew(k, minNum, minDen, sketch) ==
    [k |-> k, minNum |-> minNum, minDen |-> minDen, n |-> 0, cms |-> sketch,
     elements |-> {}]

\* TopK::is_top: estimate(e) as f64 / n as f64 > min, with min the fraction
\* minNum/minDen; 0/0 is NaN, which is not greater than min
IsTop(t, e) == CmsEstimate(t.cms, e) * t.minDen > t.minNum * t.n

\* TopK::insert
TopKInsertNoTrack(t, e) ==
    [t EXCEPT !.cms = CmsInsert(t.cms, e).sk, !.n = t.n + 1]
TopKInsert(t, e) ==
    LET t1 == [t EXCEPT !.cms = CmsInsert(t.cms, e).sk, !.n = t.n + 1] IN
    IF IsTop(t1, e) THEN [t1 EXCEPT !.elements = @ \cup {e}] ELSE t1

\* the orders in which a HashSet can be iterated
Orders(S) ==
    {f \in [1..Cardinality(S) -> S] : \A i, j \in 1..Cardinality(S) : f[i] = f[j] => i = j}

\* v.sort_by(|a, b| estimate(b).cmp(&estimate(a))): a stable sort by
\* descending estimate
RECURSIVE SortDescInsert(_, _, _)
SortDescInsert(t, sorted, x) ==
    IF sorted = <<>> THEN <<x>>
    ELSE IF CmsEstimate(t.cms, Head(sorted)) < CmsEstimate(t.cms, x) THEN <<x>> \o sorted
    ELSE <<Head(sorted)>> \o SortDescInsert(t, Tail(sorted), x)

RECURSIVE SortDesc(_, _)
SortDesc(t, v) ==
    IF v = <<>> THEN <<>>
    ELSE SortDescInsert(t, SortDesc(t, SubSeq(v, 1, Len(v) - 1)), v[Len(v)])

\* into_iter().take(k)
TakeK(v, k) == SubSeq(v, 1, Min2(k, Len(v)))

\* the candidates that pass the filter, in iteration order
RECURSIVE FilterTop(_, _)
FilterTop(t, v) ==
    IF v = <<>> THEN <<>>
    ELSE (IF IsTop(t, Head(v)) THEN <<Head(v)>> ELSE <<>>) \o FilterTop(t, Tail(v))

\* TopK::elements, the HashSet being iterated in the order `order`
TopKElementsNoTake(t, order) == SortDesc(t, FilterTop(t, order))
TopKElements(t, order) == TakeK(SortDesc(t, FilterTop(t, order)), t.k)

\* TopK::shrink_to_fit
TopKShrinkAlways(t, order) == [t EXCEPT !.elements = Range(TopKElements(t, order))]
TopKShrinkToFit(t, order) ==
    IF Cardinality(t.elements) > t.k
    THEN [t EXCEPT !.elements = Range(TopKElements(t, order))]
    ELSE t

\* topk.insert(e)
TInsert(e) ==
    /\ ~panicked
    /\ topk.n < MaxInserts
    /\ topk' = TopKInsert(topk, e)
    /\ truth' = [truth EXCEPT ![e] = @ + 1]
    /\ last' = [op |-> "insert"]
    /\ UNCHANGED <<hash, gen, bf, cms, panicked>>

\* topk.elements()
TElements ==
    /\ ~panicked
    /\ \E order \in Orders(topk.elements) :
          last' = [op |-> "elements", ret |-> TopKElements(topk, order), pre |-> topk]
    /\ UNCHANGED <<hash, gen, bf, cms, topk, truth, panicked>>

\* topk.shrink_to_fit(); `order` is the order in which the HashSet iterates
\* at the call, which is also the order an elements() call made just before
\* it iterates in (the set is not modified in between)
TShrinkToFit ==
    /\ ~panicked
    /\ \E order \in Orders(topk.elements) :
          /\ topk' = TopKShrinkToFit(topk, order)
          /\ last' = [op |-> "shrink_to_fit", pre |-> topk, order |-> order]
    /\ UNCHANGED <<hash, gen, bf, cms, truth, panicked>>

TopKElems == {"x", "y", "z"}

\* the two SipHash values of the Top-K runs
TopKHashVals == {0, 1}

\* the (depth, width) of the sketch handed to TopK::new
TopKShapes == {<<1, 2>>, <<2, 3>>}

\* the thresholds min handed to TopK::new: 1/4 and 1/2
TopKMins == {<<1, 4>>, <<1, 2>>}

InitTopK ==
    /\ hash \in [TopKElems -> [h1 : TopKHashVals, h2 : TopKHashVals]]
    /\ \E k \in 1..MaxTopK, m \in TopKMins, sh \in TopKShapes :
          topk = TopKNew(k, m[1], m[2], CmsNew(sh[1], sh[2]))
    /\ truth = [e \in TopKElems |-> 0]
    /\ gen = <<>>
    /\ bf = <<>>
    /\ cms = <<>>
    /\ last = NoOp
    /\ panicked = FALSE

NextTopK ==
    \/ \E e \in DOMAIN hash : TInsert(e)
    \/ TElements
    \/ TShrinkToFit

SpecTopK == InitTopK /\ [][NextTopK]_vars

\* x accounts for more than the fraction min of all inserts
Heavy(x) == truth[x] * topk.minDen > topk.minNum * topk.n

\* the elements of the stream whose estimated share exceeds min
Passing == {e \in DOMAIN hash : truth[e] > 0 /\ IsTop(topk, e)}

\* C3, as claimed: every element that accounts for more than the fraction
\* min of all inserts is in the sequence elements() returns.
C3_HeavyInElements ==
    last.op = "elements" => \A x \in DOMAIN hash : Heavy(x) => x \in Range(last.ret)

\* C3, amended: every element that accounts for more than the fraction min
\* of all inserts is in the sequence elements() returns, provided at most k
\* elements of the stream have an estimated share above min.
C3_HeavyInElementsUpToK ==
    (last.op = "elements" /\ Cardinality(Passing) <= topk.k) =>
        \A x \in DOMAIN hash : Heavy(x) => x \in Range(last.ret)

\* elements() returned a heavy element after a shrink_to_fit had pruned the
\* candidate set, beside a candidate that no longer passes the filter
C3_Witness ==
    /\ last.op = "elements" /\ Cardinality(Passing) <= topk.k
    /\ \E x \in DOMAIN hash : Heavy(x) /\ x \in Range(last.ret)
    /\ \E y \in topk.elements : ~IsTop(topk, y)
    /\ \E z \in DOMAIN hash : truth[z] > 0 /\ z \notin topk.elements

\* a statement in terms of the candidates alone does not hold: a
\* shrink_to_fit may already have dropped a heavy element on a tie
C3_HeavyAmongCandidates ==
    (last.op = "elements" /\ Cardinality({e \in topk.elements : IsTop(topk, e)}) <= topk.k) =>
        \A x \in DOMAIN hash : Heavy(x) => x \in Range(last.ret)

\* C6: the sequence elements() returns has at most k entries, all distinct
\* candidates whose estimated share exceeds min, in non-increasing order of
\* estimate; when more than k candidates pass, it has k entries and no
\* candidate left out has a higher estimate than one returned; and the call
\* leaves the candidate set, the counters and n as they were.
C6_Elements ==
    last.op = "elements" =>
        LET r == last.ret
            surviving == {e \in topk.elements : IsTop(topk, e)} IN
        /\ Len(r) <= topk.k
        /\ \A i \in 1..Len(r) : r[i] \in surviving
        /\ \A i, j \in 1..Len(r) : r[i] = r[j] => i = j
        /\ \A i, j \in 1..Len(r) :
              i < j => CmsEstimate(topk.cms, r[i]) >= CmsEstimate(topk.cms, r[j])
        /\ Len(r) = Min2(topk.k, Cardinality(surviving))
        /\ \A e \in surviving \ Range(r) : \A i \in 1..Len(r) :
              CmsEstimate(topk.cms, e) <= CmsEstimate(topk.cms, r[i])
        /\ topk = last.pre

\* elements() returned k entries and left out a candidate that passes the
\* filter with a lower estimate
C6_Witness ==
    /\ last.op = "elements" /\ Len(last.ret) = topk.k
    /\ \E e \in topk.elements :
          /\ IsTop(topk, e) /\ e \notin Range(last.ret)
          /\ CmsEstimate(topk.cms, e) < CmsEstimate(topk.cms, last.ret[Len(last.ret)])

\* elements() returned two entries of different estimates, in order
C6_WitnessOrder ==
    /\ last.op = "elements" /\ Len(last.ret) = 2
    /\ CmsEstimate(topk.cms, last.ret[1]) > CmsEstimate(topk.cms, last.ret[2])

\* elements() left out a candidate whose share has fallen to min or below
C6_WitnessStale ==
    /\ last.op = "elements"
    /\ \E e \in topk.elements : ~IsTop(topk, e)
    /\ last.ret # <<>>

\* what C11 states of one step from candidate structure t to t1
InsertKeeps(t, t1) == t.elements \subseteq t1.elements

ShrinkPrunes(t, t1, order) ==
    /\ Cardinality(t.elements) <= t.k => t1.elements = t.elements
    /\ Cardinality(t.elements) > t.k => t1.elements = Range(TopKElements(t, order))
    /\ Cardinality(t.elements) > t.k => Cardinality(t1.elements) <= t1.k
    /\ t1.cms = t.cms /\ t1.n = t.n /\ t1.k = t.k
    /\ t1.minNum = t.minNum /\ t1.minDen = t.minDen
    /\ \A after \in Orders(t1.elements) :
          Range(TopKElements(t1, after)) = Range(TopKElements(t, order))

\* C11: insert never removes an element from the candidate set;
\* shrink_to_fit leaves the set as it is when it has at most k entries and
\* otherwise replaces it with exactly the elements elements() returns at that
\* moment, at most k of them; it changes neither the counters nor n, and
\* elements() returns the same set right before and right after it.
C11_CandidateSet ==
    [][/\ last'.op = "insert" => InsertKeeps(topk, topk')
       /\ last'.op = "shrink_to_fit" => ShrinkPrunes(topk, topk', last'.order)]_vars

\* a shrink_to_fit that pruned a candidate set of more than k entries, one
\* of them stale, and left a non-empty set
C11_Witness ==
    /\ last.op = "shrink_to_fit"
    /\ Cardinality(last.pre.elements) > topk.k
    /\ \E e \in last.pre.elements : ~IsTop(topk, e)
    /\ topk.elements # {} /\ topk.elements # last.pre.elements

\* a shrink_to_fit that found at most k candidates, one of them stale, and
\* kept them all
C11_WitnessKept ==
    /\ last.op = "shrink_to_fit"
    /\ Cardinality(last.pre.elements) <= topk.k
    /\ \E e \in topk.elements : ~IsTop(topk, e)

====
